---- MODULE Spec2Model ----
(***************************************************************************)
(* A model of the reverse-proxy load balancer: the backend pool            *)
(* (pool.ServerPool), the round-robin / least-connections selector         *)
(* (GetNextValidPeer), the health checker (health.Start) and the proxy     *)
(* forwarding / retry handler (proxy.Handler).                             *)
(*                                                                         *)
(* Backends are objects identified by a number; several objects may carry  *)
(* the same URL (the pool does not enforce uniqueness).  A backend object  *)
(* keeps its alive flag and its CurrentConns counter also when it is no    *)
(* longer a member of the pool.                                            *)
(***************************************************************************)
EXTENDS Integers, Sequences, FiniteSets, TLC

\* ------------------------------------------------------------------ bounds
MaxBackends == 3        \* backend objects that ever exist
MaxMembers  == 2        \* members of the pool of the running program
NumURLs     == 2        \* distinct addresses; object b has address URLOf(b)
MaxReqs     == 2        \* proxied requests (each handled once)
MaxCallers  == 2        \* tasks calling GetNextValidPeer directly
MaxAdmins   == 2        \* admin API requests served at the same time
MaxConns    == 2        \* largest CurrentConns a least-connections input starts with
MaxPicks    == 6        \* direct selections recorded in one run
CursorBits  == 3        \* modelled width of the uint64 cursor ServerPool.Current

BackendIds == 1..MaxBackends
URLs       == 1..NumURLs
Reqs       == 1..MaxReqs
Callers    == (MaxReqs + 1)..(MaxReqs + MaxCallers)
Tasks      == Reqs \cup Callers
Admins     == 1..MaxAdmins
Nil        == 0         \* the nil *Backend

\* ------------------------------------------------------- program constants
StatusOK                 == 200
StatusNoContent          == 204
StatusInternalError      == 500
StatusBadGateway         == 502
StatusServiceUnavailable == 503
MaxInt64 == 2147483647  \* math.MaxInt64, scaled to the largest integer TLC represents

VARIABLES
  Backends,       \* ServerPool.Backends: sequence of backend objects
  Current,        \* ServerPool.Current: the round-robin cursor
  Strategy,       \* ServerPool.Strategy
  alive,          \* Backend.alive, per backend object
  CurrentConns,   \* Backend.CurrentConns, per backend object
  sel,            \* per task: progress of its GetNextValidPeer call
  req,            \* per request: progress of proxy.Handler
  hc,             \* the health checker goroutine
  made,           \* the backend objects created so far
  picks,          \* how often each backend (or nil) was returned to the direct
                  \* callers in the current run
  run,            \* bookkeeping about the current run of direct selections
  store,          \* the backing array of s.Backends and the slices returned
                  \* by GetBackends that direct callers hold
  adm,            \* per admin API goroutine: progress of its POST /backends
  wr              \* the SetBackendStatus call that is inside its locked section

vars == <<Backends, Current, Strategy, alive, CurrentConns, sel, req, hc,
          made, picks, run, store, adm, wr>>

\* --------------------------------------------------------------- helpers
Range(s) == {s[i] : i \in 1..Len(s)}

\* The address of a backend object (Backend.URL, never mutated).
URLOf(b) == ((b - 1) % NumURLs) + 1

CursorMod == 2 ^ CursorBits

\* Index (1-based) of the first member whose URL is u, 0 when there is none.
FirstIndexOf(members, u) ==
  IF \E i \in 1..Len(members) : URLOf(members[i]) = u
    THEN CHOOSE i \in 1..Len(members) :
           /\ URLOf(members[i]) = u
           /\ \A j \in 1..(i - 1) : URLOf(members[j]) # u
    ELSE 0

\* append(s.Backends[:i], s.Backends[i+1:]...)
RemoveAt(members, i) ==
  [j \in 1..(Len(members) - 1) |-> IF j < i THEN members[j] ELSE members[j + 1]]

\* ------------------------------------------------- ServerPool: the lock
\* s.mux is held for reading by every task inside a GetNextValidPeer scan.
\* GetBackends also reads under RLock, in one step.  AddBackend,
\* RemoveBackend and SetBackendStatus take s.mux.Lock(): they run, in one
\* step each, only when no reader holds the lock.
\* A handler that keeps the read lock while its request is forwarded.
ReadersHolding ==
  {t \in Tasks : sel[t].pc = "scan" \/ (t \in Reqs /\ req[t].pc = "serve")}

Readers == {t \in Tasks : sel[t].pc = "scan"}

\* s.mux is awaited or held for writing from one step to the next only by a
\* SetBackendStatus call followed through its locked section (wr).  A
\* sync.RWMutex lets nobody in while a writer holds it, and lets no new
\* reader in while a writer is waiting for it.
WrIdle == [pc |-> "idle", url |-> 0, alive |-> FALSE]

NoWriter == wr.pc = "idle"

\* A locked section that ends without giving the lock back.
UnlockMissing(w) == w

\* defer s.mux.Unlock()
Unlock(w) == WrIdle

\* A pool whose writers do not wait for the readers.
NoReadersMut == TRUE

NoReaders == Readers = {}

\* ----------------------------------------- ServerPool.GetNextValidPeer
SelIdle ==
  [pc |-> "idle", start |-> 0, i |-> 0, best |-> Nil, minConns |-> MaxInt64,
   result |-> Nil, clean |-> TRUE]

\* A cursor that is read but never advanced.
AddUint64Mut(cur) == cur

\* atomic.AddUint64(&s.Current, 1): the new value of the cursor.
AddUint64(cur) == (cur + 1) % CursorMod

\* start := (atomic.AddUint64(&s.Current, 1) - 1) % uint64(length), where
\* added is the value AddUint64 returned; the subtraction is modulo 2^w.
RRStart(added, length) == ((added + CursorMod - 1) % CursorMod) % length

\* idx := (start + uint64(i)) % uint64(length), as a 1-based position.
RRIndex(start, i, length) == ((start + i) % length) + 1

\* The least-connections comparison without the liveness test.
LCBetterMut(b, conns, minConns) == conns < minConns

\* The least-connections comparison taking the later member on a tie.
LCBetterTie(b, conns, minConns) == alive[b] /\ conns <= minConns

\* b.IsAlive() && conns < minConns
LCBetter(b, conns, minConns) == alive[b] /\ conns < minConns

\* A round-robin scan that takes the first member it looks at.
RRAcceptMut(b) == TRUE

\* s.Backends[idx].IsAlive() in the round-robin scan
RRAccept(b) == alive[b]

\* Entering GetNextValidPeer: RLock, the strategy switch, and for round-robin
\* the length test and the atomic increment of the cursor.
SelBegin(t) ==
  /\ sel[t].pc = "idle"
  /\ NoWriter
  /\ IF Strategy = "least-connections"
       THEN /\ Current' = Current
            /\ sel' = [sel EXCEPT ![t] =
                 IF Len(Backends) = 0
                   THEN [SelIdle EXCEPT !.pc = "ret"]
                   ELSE [SelIdle EXCEPT !.pc = "scan", !.i = 1]]
       ELSE IF Len(Backends) = 0
              THEN /\ Current' = Current
                   /\ sel' = [sel EXCEPT ![t] = [SelIdle EXCEPT !.pc = "ret"]]
              ELSE /\ Current' = AddUint64(Current)
                   /\ sel' = [sel EXCEPT ![t] =
                        [SelIdle EXCEPT !.pc = "scan",
                                        !.start = RRStart(Current', Len(Backends))]]

\* GetNextValidPeer returns b (the deferred RUnlock runs).
SelReturn(s, b) == [SelIdle EXCEPT !.pc = "ret", !.result = b, !.clean = s.clean]

\* One iteration of the scan loop of GetNextValidPeer, with the return when
\* the loop ends.
SelStepLC(t) ==
  LET s == sel[t]
      b == Backends[s.i]
      conns == CurrentConns[b]
      better == LCBetter(b, conns, s.minConns)
      best1 == IF better THEN b ELSE s.best
      min1 == IF better THEN conns ELSE s.minConns
  IN  sel' = [sel EXCEPT ![t] =
        IF s.i = Len(Backends)
          THEN SelReturn(s, best1)
          ELSE [s EXCEPT !.i = s.i + 1, !.best = best1, !.minConns = min1]]

SelStepRR(t) ==
  LET s == sel[t]
      length == Len(Backends)
      b == Backends[RRIndex(s.start, s.i, length)]
  IN  sel' = [sel EXCEPT ![t] =
        IF RRAccept(b)
          THEN SelReturn(s, b)
          ELSE IF s.i + 1 = length
                 THEN SelReturn(s, Nil)
                 ELSE [s EXCEPT !.i = s.i + 1]]

SelStep(t) ==
  /\ sel[t].pc = "scan"
  /\ IF Strategy = "least-connections" THEN SelStepLC(t) ELSE SelStepRR(t)

\* A change of membership or liveness while calls are under way or their
\* results not yet taken: those calls no longer belong to a run without
\* mutation (bookkeeping only; the calls themselves go on).
MarkDirty(f) ==
  [t \in Tasks |-> IF f[t].pc = "idle" THEN f[t] ELSE [f[t] EXCEPT !.clean = FALSE]]

RunIdle == [calls |-> 0, overlap |-> FALSE, wrapped |-> FALSE]

NoPicks == [b \in {Nil} \cup BackendIds |-> 0]

\* ------------------------------------------------ ServerPool: mutation
\* An add that puts the new backend in front of the members.
AddBackendFront(members, b) == <<b>> \o members

\* AddBackend: append under the exclusive lock.
AddBackend(members, b) == Append(members, b)

\* A removal that takes out the last member whose URL matches.
RemoveBackendLast(members, u) ==
  IF FirstIndexOf(members, u) = 0
    THEN members
    ELSE RemoveAt(members, CHOOSE i \in 1..Len(members) :
                    /\ URLOf(members[i]) = u
                    /\ \A j \in (i + 1)..Len(members) : URLOf(members[j]) # u)

\* A removal that drops the oldest member when no URL matches.
RemoveBackendElse(members, u) ==
  IF FirstIndexOf(members, u) = 0
    THEN IF members = <<>> THEN members ELSE Tail(members)
    ELSE RemoveAt(members, FirstIndexOf(members, u))

\* RemoveBackend: remove the first member whose URL matches.
RemoveBackend(members, u) ==
  IF FirstIndexOf(members, u) = 0
    THEN members
    ELSE RemoveAt(members, FirstIndexOf(members, u))

\* The bool RemoveBackend returns.
RemoveBackendResult(members, u) == FirstIndexOf(members, u) # 0

\* A setStatus that marks every backend object of that address.
SetBackendStatusAll(al, members, u, a) ==
  [b \in BackendIds |-> IF URLOf(b) = u THEN a ELSE al[b]]

\* SetBackendStatus: SetAlive on the first member whose URL matches.
SetBackendStatus(al, members, u, a) ==
  IF FirstIndexOf(members, u) = 0
    THEN al
    ELSE [al EXCEPT ![members[FirstIndexOf(members, u)]] = a]

\* GetBackends: a copy of the slice.
GetBackends == Backends

\* ------------------------------------------- ServerPool.Backends in memory
\* s.Backends is a slice: a backing array (cells, as long as the capacity)
\* of which the first Len(Backends) cells are the members.  The layout is
\* followed only where store.tracked is set, in the specification of the
\* slices GetBackends returns; elsewhere the member list alone is followed.
\* A slice held by a caller is its own array (own) or shares the array
\* s.Backends had when the slice was made; orig is the member list at the
\* time of the call (bookkeeping only).
NoSnap == [has |-> FALSE, own |-> TRUE, cells |-> <<>>, len |-> 0, orig |-> <<>>]

Untracked == [tracked |-> FALSE, cells |-> <<>>, snaps |-> [c \in Callers |-> NoSnap]]

\* The capacity append gives a full array of capacity cap.
GrowCap(cap) == IF cap = 0 THEN 1 ELSE 2 * cap

\* append(s.Backends, b): in place when there is room, else into a new array.
AppendCells(cells, len, b) ==
  IF len < Len(cells)
    THEN [cells EXCEPT ![len + 1] = b]
    ELSE [j \in 1..GrowCap(Len(cells)) |->
            IF j <= len THEN cells[j] ELSE IF j = len + 1 THEN b ELSE Nil]

\* append(s.Backends[:i], s.Backends[i+1:]...): the cells after position i
\* move down one place in the same array; the last one keeps its content.
RemoveCells(cells, len, i) ==
  [j \in 1..Len(cells) |-> IF j >= i /\ j < len THEN cells[j + 1] ELSE cells[j]]

\* A slice sharing the array of s.Backends.
GetBackendsAlias(cells, len, members) ==
  [has |-> TRUE, own |-> FALSE, cells |-> <<>>, len |-> len, orig |-> members]

\* append([]*Backend(nil), s.Backends...): a new array holding the members.
GetBackendsCopy(cells, len, members) ==
  [has |-> TRUE, own |-> TRUE, cells |-> SubSeq(cells, 1, len), len |-> len,
   orig |-> members]

\* What a caller reads through the slice it holds.
SnapView(st, c) ==
  IF st.snaps[c].own
    THEN SubSeq(st.snaps[c].cells, 1, st.snaps[c].len)
    ELSE SubSeq(st.cells, 1, st.snaps[c].len)

\* The memory after AddBackend(b) on a pool of len members.  When append
\* moves to a new array, a slice sharing the old one keeps the old one.
StoreAdd(st, len, b) ==
  IF ~st.tracked THEN st
  ELSE [tracked |-> TRUE,
        cells |-> AppendCells(st.cells, len, b),
        snaps |-> [c \in Callers |->
                     IF st.snaps[c].own \/ len < Len(st.cells)
                       THEN st.snaps[c]
                       ELSE [st.snaps[c] EXCEPT !.own = TRUE, !.cells = st.cells]]]

\* The memory after RemoveBackend found its match at position i (0: none).
StoreRemove(st, len, i) ==
  IF ~st.tracked \/ i = 0 THEN st
  ELSE [st EXCEPT !.cells = RemoveCells(st.cells, len, i)]

\* The array main's AddBackend calls build for n configured backends.
RECURSIVE BuildCells(_)
BuildCells(n) ==
  IF n = 0 THEN <<>> ELSE AppendCells(BuildCells(n - 1), n - 1, n)

\* ------------------------------------------------------- the environment
\* The servers behind the URLs are free: every forwarded request and every
\* probe gets, whenever it is made, a response with some status or no
\* response at all (connection refused or reset, timeout).
Statuses == {StatusOK, StatusInternalError}

NoStatus == 0           \* no response was obtained

\* What a /health probe can get: a response with status 200, with another
\* 2xx status, with an error status, or none (transport error, timeout,
\* request that could not be built).
ProbeStatuses == {StatusOK, StatusNoContent, StatusInternalError, NoStatus}

\* ------------------------------------------- http.ResponseWriter of a request
\* code is the status sent to the caller (0: nothing sent yet), headerCalls
\* counts the WriteHeader calls made on the writer, body is what was written.
NoResponse == [code |-> 0, headerCalls |-> 0, body |-> <<>>]

\* Only the first WriteHeader reaches the caller.
WriteHeader(w, c) ==
  [w EXCEPT !.code = IF w.code = 0 THEN c ELSE w.code,
            !.headerCalls = w.headerCalls + 1]

\* Write sends the header with 200 first when none was sent.
Write(w, chunk) ==
  [w EXCEPT !.code = IF w.code = 0 THEN StatusOK ELSE w.code,
            !.body = Append(w.body, chunk)]

\* A handler that gives up without writing anything.
ServiceUnavailableMut(w) == w

\* http.Error(w, "Service Unavailable", http.StatusServiceUnavailable)
ServiceUnavailable(w) ==
  Write(WriteHeader(w, StatusServiceUnavailable), [from |-> Nil, full |-> TRUE])

\* rp.ServeHTTP on a transport error: the tw.failed flag is set by RoundTrip;
\* rp has no ErrorHandler, so httputil's default one runs:
\* rw.WriteHeader(http.StatusBadGateway).
OnTransportError(w) == WriteHeader(w, StatusBadGateway)

\* rp.ServeHTTP on a response: status and body are copied to the writer.
OnResponse(w, b, status) ==
  Write(WriteHeader(w, status), [from |-> b, full |-> TRUE])

\* rp.ServeHTTP when the response arrives but copying its body fails: the
\* status and a part of the body were already written.
OnCopyError(w, b, status) ==
  Write(WriteHeader(w, status), [from |-> b, full |-> FALSE])

\* ---------------------------------------------------------- proxy.Handler
\* before records the counters and the liveness flags found when the request
\* arrived, trail the attempts made so far (bookkeeping only).
ReqIdle ==
  [pc |-> "idle", maxAttempts |-> 0, attempt |-> 0, backend |-> Nil,
   failed |-> FALSE, cancelled |-> FALSE, cutAt |-> 0, w |-> NoResponse,
   trail |-> <<>>,
   before |-> [conns |-> [b \in BackendIds |-> 0],
               alive |-> [b \in BackendIds |-> FALSE]]]

InFlightPcs == {"loop", "selecting", "serve", "dec", "mark"}

Active(r) == req[r].pc \in InFlightPcs

\* maxAttempts := len(serverPool.GetBackends()); 503 when it is 0.
ReqStart(r) ==
  /\ req[r].pc = "idle"
  /\ NoWriter
  /\ LET maxAttempts == Len(GetBackends)
         base == [req[r] EXCEPT !.maxAttempts = maxAttempts,
                                !.before = [conns |-> CurrentConns, alive |-> alive]]
     IN  req' = [req EXCEPT ![r] =
           IF maxAttempts = 0
             THEN [base EXCEPT !.pc = "done", !.w = ServiceUnavailable(base.w)]
             ELSE [base EXCEPT !.pc = "loop"]]
  /\ UNCHANGED <<wr, adm, store, Backends, Current, Strategy, alive, CurrentConns, sel, hc,
                 made, picks, run>>

\* backend := serverPool.GetNextValidPeer(): the call is entered.
ReqSelect(r) ==
  /\ req[r].pc = "loop"
  /\ SelBegin(r)
  /\ req' = [req EXCEPT ![r].pc = "selecting"]
  /\ UNCHANGED <<wr, adm, store, Backends, Strategy, alive, CurrentConns, hc, made, picks, run>>

\* One iteration of the scan inside the request's GetNextValidPeer call.
ReqScan(r) ==
  /\ req[r].pc = "selecting"
  /\ SelStep(r)
  /\ UNCHANGED <<wr, adm, store, Backends, Current, Strategy, alive, CurrentConns, req, hc,
                 made, picks, run>>

\* atomic.AddInt64(&backend.CurrentConns, 1)
ConnsInc(c, b) == [c EXCEPT ![b] = c[b] + 1]

\* atomic.AddInt64(&backend.CurrentConns, -1)
ConnsDec(c, b) == [c EXCEPT ![b] = c[b] - 1]

\* One failure flag for all requests, as when the error callback is kept on
\* the backend's shared proxy.
TwShared(r) == 1

\* tw := &transportWrapper{...}: the wrapper, hence its failed flag, is built
\* anew for each attempt of each request; the flag of request r's attempt is
\* kept in req[r].failed.
TwOf(r) == r

\* GetNextValidPeer has returned: break and 503 on nil, else the counter is
\* incremented and the request is forwarded (rp.ServeHTTP is entered).
ReqPicked(r) ==
  /\ req[r].pc = "selecting"
  /\ sel[r].pc = "ret"
  /\ LET b == sel[r].result
     IN  IF b = Nil
           THEN /\ req' = [req EXCEPT ![r].pc = "done", ![r].backend = Nil,
                                      ![r].w = ServiceUnavailable(req[r].w)]
                /\ CurrentConns' = CurrentConns
           ELSE /\ req' = [req EXCEPT ![r].pc = "serve", ![r].backend = b,
                                      ![TwOf(r)].failed = FALSE]
                /\ CurrentConns' = ConnsInc(CurrentConns, b)
  /\ sel' = [sel EXCEPT ![r] = SelIdle]
  /\ UNCHANGED <<wr, adm, store, Backends, Current, Strategy, alive, hc, made, picks, run>>

\* The outcomes rp.ServeHTTP can have.
\*   "resp"  a response was obtained and relayed;
\*   "err"   RoundTrip returned an error (refused, reset, timeout, or the
\*           context cancelled by the client);
\*   "abort" a response was obtained but copying its body failed: under an
\*           http.Server ServeHTTP panics with http.ErrAbortHandler.
\* ctx derives from r.Context(): once the client has cancelled, no attempt
\* completes with a relayed response.  The attempt that was in flight when the
\* cancellation arrived fails in RoundTrip or, when the response header had
\* already been received, in the body copy; an attempt begun afterwards fails
\* in RoundTrip at once.
Outcomes(r) ==
  IF ~req[r].cancelled THEN {"resp", "err", "abort"}
  ELSE IF req[r].cutAt = Len(req[r].trail) + 1 THEN {"err", "abort"}
  ELSE {"err"}

\* rp.ServeHTTP(w, req) ends.
ReqServe(r, out, status) ==
  /\ req[r].pc = "serve"
  /\ out \in Outcomes(r)
  /\ status \in IF out = "err" THEN {NoStatus} ELSE Statuses
  /\ LET b == req[r].backend
         w1 == IF out = "resp" THEN OnResponse(req[r].w, b, status)
               ELSE IF out = "err" THEN OnTransportError(req[r].w)
               ELSE OnCopyError(req[r].w, b, status)
         entry == [b |-> b, out |-> out, status |-> status,
                   wrote |-> w1 # req[r].w, cut |-> req[r].cancelled]
     IN  req' = [req EXCEPT ![r].pc = IF out = "abort" THEN "aborted" ELSE "dec",
                            ![r].w = w1,
                            ![r].trail = Append(req[r].trail, entry),
                            ![TwOf(r)].failed = IF out = "err" THEN TRUE ELSE @]
  /\ UNCHANGED <<wr, adm, store, Backends, Current, Strategy, alive, CurrentConns, sel, hc,
                 made, picks, run>>

\* atomic.AddInt64(&backend.CurrentConns, -1); cancel(); return on success.
ReqDec(r) ==
  /\ req[r].pc = "dec"
  /\ CurrentConns' = ConnsDec(CurrentConns, req[r].backend)
  /\ req' = [req EXCEPT ![r].pc = IF req[TwOf(r)].failed THEN "mark" ELSE "done"]
  /\ UNCHANGED <<wr, adm, store, Backends, Current, Strategy, alive, sel, hc, made, picks, run>>

\* backend.SetAlive(false) on the backend object of the failed attempt.
MarkDown(al, b) == [al EXCEPT ![b] = FALSE]

\* attempt < maxAttempts, tested after attempt++
MoreAttempts(attempt, maxAttempts) == attempt < maxAttempts

\* The failed attempt's backend is marked dead; the loop goes on, or ends
\* with 503 when maxAttempts attempts were made.
ReqMark(r) ==
  /\ req[r].pc = "mark"
  /\ alive' = MarkDown(alive, req[r].backend)
  /\ sel' = IF alive' # alive THEN MarkDirty(sel) ELSE sel
  /\ picks' = IF alive' # alive THEN NoPicks ELSE picks
  /\ run' = IF alive' # alive THEN RunIdle ELSE run
  /\ req' = [req EXCEPT ![r] =
       IF MoreAttempts(req[r].attempt + 1, req[r].maxAttempts)
         THEN [req[r] EXCEPT !.pc = "loop", !.attempt = req[r].attempt + 1]
         ELSE [req[r] EXCEPT !.pc = "done", !.attempt = req[r].attempt + 1,
                             !.w = ServiceUnavailable(req[r].w)]]
  /\ UNCHANGED <<wr, adm, store, Backends, Current, Strategy, CurrentConns, hc, made>>

\* The inbound client cancels or disconnects: r.Context() is cancelled.
ClientCancel(r) ==
  /\ Active(r)
  /\ ~req[r].cancelled
  /\ req' = [req EXCEPT ![r].cancelled = TRUE,
                         ![r].cutAt = IF req[r].pc = "serve"
                                        THEN Len(req[r].trail) + 1 ELSE 0]
  /\ UNCHANGED <<wr, adm, store, Backends, Current, Strategy, alive, CurrentConns, sel, hc,
                 made, picks, run>>

\* ------------------------------------------------------------ health.Start
\* A probe that succeeds on any response.
CheckBackendAny(status) == status # NoStatus

\* CheckBackend: true iff a response is obtained and its status is 200.
CheckBackend(status) == status = StatusOK

\* todo holds the members of the tick's snapshot not yet dealt with; its
\* head is the member of the current iteration of the range loop.
\* known records the liveness the member had when its probe was issued
\* (bookkeeping only: the code does not read it then).
HcIdle == [pc |-> "wait", todo |-> <<>>, newStatus |-> FALSE, known |-> FALSE]

\* After a member is dealt with: the probe of the next member is issued, or
\* the next tick awaited.  al is the liveness of the backends at that moment.
HcAdvance(h, al) ==
  IF Len(h.todo) > 1
    THEN [pc |-> "probe", todo |-> Tail(h.todo), newStatus |-> FALSE,
          known |-> al[h.todo[2]]]
    ELSE HcIdle

\* A tick: backends := serverPool.GetBackends()
HcTick ==
  /\ hc.pc = "wait"
  /\ NoWriter
  /\ Len(GetBackends) > 0
  /\ hc' = [pc |-> "probe", todo |-> GetBackends, newStatus |-> FALSE,
            known |-> alive[GetBackends[1]]]
  /\ UNCHANGED <<wr, adm, store, Backends, Current, Strategy, alive, CurrentConns, sel, req,
                 made, picks, run>>

\* newStatus := CheckBackend(backend.URL.String()); the probe gets a
\* response with the given status, or none.
HcProbe(status) ==
  /\ hc.pc = "probe"
  /\ hc' = [hc EXCEPT !.pc = "read", !.newStatus = CheckBackend(status)]
  /\ UNCHANGED <<wr, adm, store, Backends, Current, Strategy, alive, CurrentConns, sel, req,
                 made, picks, run>>

\* previousStatus := backend.IsAlive(); if previousStatus != newStatus ...
HcRead ==
  /\ hc.pc = "read"
  /\ LET previousStatus == alive[Head(hc.todo)]
     IN  hc' = IF previousStatus # hc.newStatus
                 THEN [hc EXCEPT !.pc = "set", !.known = FALSE]
                 ELSE HcAdvance(hc, alive)
  /\ UNCHANGED <<wr, adm, store, Backends, Current, Strategy, alive, CurrentConns, sel, req,
                 made, picks, run>>

\* A checker that also drops from the pool the member it found down.
HcSetRemoving ==
  /\ hc.pc = "set"
  /\ NoReaders /\ NoWriter
  /\ alive' = SetBackendStatus(alive, Backends, URLOf(Head(hc.todo)), hc.newStatus)
  /\ Backends' = IF hc.newStatus THEN Backends
                  ELSE RemoveBackend(Backends, URLOf(Head(hc.todo)))
  /\ sel' = MarkDirty(sel)
  /\ picks' = NoPicks
  /\ run' = RunIdle
  /\ hc' = HcAdvance(hc, alive')
  /\ UNCHANGED <<wr, adm, store, Current, Strategy, CurrentConns, req, made>>

\* serverPool.SetBackendStatus(backend.URL, newStatus)
HcSet ==
  /\ hc.pc = "set"
  /\ NoReaders /\ NoWriter
  /\ alive' = SetBackendStatus(alive, Backends, URLOf(Head(hc.todo)), hc.newStatus)
  /\ sel' = IF alive' # alive THEN MarkDirty(sel) ELSE sel
  /\ picks' = IF alive' # alive THEN NoPicks ELSE picks
  /\ run' = IF alive' # alive THEN RunIdle ELSE run
  /\ hc' = HcAdvance(hc, alive')
  /\ UNCHANGED <<wr, adm, store, Backends, Current, Strategy, CurrentConns, req, made>>

\* ------------------------------------------- callers of the pool's interface
\* The backend object a caller creates for URL u: one not created before.
Fresh(u) == {b \in BackendIds \ made : URLOf(b) = u /\
               \A c \in BackendIds \ made : URLOf(c) = u => b <= c}

\* A new backend object for URL u is created with liveness a and added to
\* the pool: serverPool.AddBackend(&pool.Backend{URL: u, ...}).
AddNew(u, a) ==
  /\ NoReaders /\ NoWriter
  /\ \E b \in Fresh(u) :
       /\ made' = made \cup {b}
       /\ alive' = [alive EXCEPT ![b] = a]
       /\ Backends' = AddBackend(Backends, b)
       /\ store' = StoreAdd(store, Len(Backends), b)
  /\ sel' = MarkDirty(sel)
  /\ picks' = NoPicks
  /\ run' = RunIdle
  /\ UNCHANGED <<wr, Current, Strategy, CurrentConns, req, hc>>

\* The same done by a caller that is not an admin API goroutine.
PoolAdd(u, a) == AddNew(u, a) /\ UNCHANGED adm

\* RemoveBackend(u)
PoolRemove(u) ==
  /\ NoReaders /\ NoWriter
  /\ Backends' = RemoveBackend(Backends, u)
  /\ store' = StoreRemove(store, Len(Backends), FirstIndexOf(Backends, u))
  /\ sel' = IF Backends' # Backends THEN MarkDirty(sel) ELSE sel
  /\ picks' = IF Backends' # Backends THEN NoPicks ELSE picks
  /\ run' = IF Backends' # Backends THEN RunIdle ELSE run
  /\ UNCHANGED <<wr, adm, Current, Strategy, alive, CurrentConns, req, hc, made>>

\* SetBackendStatus(u, a)
PoolSetStatus(u, a) ==
  /\ NoReaders /\ NoWriter
  /\ alive' = SetBackendStatus(alive, Backends, u, a)
  /\ sel' = IF alive' # alive THEN MarkDirty(sel) ELSE sel
  /\ picks' = IF alive' # alive THEN NoPicks ELSE picks
  /\ run' = IF alive' # alive THEN RunIdle ELSE run
  /\ UNCHANGED <<wr, adm, store, Backends, Current, Strategy, CurrentConns, req, hc, made>>

\* SetBackendStatus(u, a) followed through its locked section: the call
\* reaches s.mux.Lock().
SetStatusCall(u, a) ==
  /\ NoWriter
  /\ wr' = [pc |-> "wait", url |-> u, alive |-> a]
  /\ UNCHANGED <<adm, store, Backends, Current, Strategy, alive, CurrentConns, sel,
                 req, hc, made, picks, run>>

\* s.mux.Lock() returns: the readers that were inside have left.
SetStatusLock ==
  /\ wr.pc = "wait"
  /\ NoReaders
  /\ wr' = [wr EXCEPT !.pc = "held"]
  /\ UNCHANGED <<adm, store, Backends, Current, Strategy, alive, CurrentConns, sel,
                 req, hc, made, picks, run>>

\* The loop over s.Backends with b.SetAlive(alive) on the first match, then
\* the deferred s.mux.Unlock().
SetStatusApply ==
  /\ wr.pc = "held"
  /\ alive' = SetBackendStatus(alive, Backends, wr.url, wr.alive)
  /\ sel' = IF alive' # alive THEN MarkDirty(sel) ELSE sel
  /\ picks' = IF alive' # alive THEN NoPicks ELSE picks
  /\ run' = IF alive' # alive THEN RunIdle ELSE run
  /\ wr' = Unlock(wr)
  /\ UNCHANGED <<adm, store, Backends, Current, Strategy, CurrentConns, req, hc,
                 made>>

\* The admin API, POST /backends: 409 when a member has the URL already,
\* else a new backend object, alive, is added.  This is a POST served while
\* no other admin request is: its check and its AddBackend follow each other.
AdminPost(u) ==
  /\ Len(Backends) < MaxMembers
  /\ \A i \in 1..Len(GetBackends) : URLOf(GetBackends[i]) # u
  /\ PoolAdd(u, TRUE)

\* The admin API, DELETE /backends: RemoveBackend(u), 404 when it returns false.
AdminDelete(u) == PoolRemove(u)

\* POST /backends served by goroutine t at the same time as other admin
\* requests.  The duplicate check reads a GetBackends snapshot (RLock taken
\* and released); AddBackend takes the lock again later.
AdmIdle == [pc |-> "idle", url |-> 0]

\* for _, b := range serverPool.GetBackends() { if b.URL.String() == ... }:
\* TRUE when no member of the snapshot has address u.
AdminAccepts(members, u) ==
  \A i \in 1..Len(members) : URLOf(members[i]) # u

\* The body is decoded and the duplicate check made: 409 and return, or on
\* to AddBackend.
AdminPostCheck(t, u) ==
  /\ adm[t].pc = "idle"
  /\ NoWriter
  /\ AdminAccepts(GetBackends, u)
  /\ Fresh(u) # {}
  /\ adm' = [adm EXCEPT ![t] = [pc |-> "add", url |-> u]]
  /\ UNCHANGED <<wr, store, Backends, Current, Strategy, alive, CurrentConns,
                 sel, req, hc, made, picks, run>>

\* serverPool.AddBackend(&pool.Backend{URL: parsedURL, Alive: true}); 201.
AdminPostAdd(t) ==
  /\ adm[t].pc = "add"
  /\ AddNew(adm[t].url, TRUE)
  /\ adm' = [adm EXCEPT ![t] = AdmIdle]

\* The runs of direct selections that are recorded: round-robin selections
\* made while the pool has members and all of them are alive.
Tracked ==
  /\ Strategy = "round-robin"
  /\ Len(Backends) > 0
  /\ \A i \in 1..Len(Backends) : alive[Backends[i]]

\* A direct caller enters GetNextValidPeer.
CallBegin(c) ==
  /\ Tracked => run.calls < MaxPicks
  /\ SelBegin(c)
  /\ run' = IF Tracked
              THEN [calls |-> run.calls + 1,
                    overlap |-> run.overlap \/ \E d \in Callers \ {c} : sel[d].pc # "idle",
                    wrapped |-> run.wrapped \/ Current' < Current]
              ELSE run
  /\ UNCHANGED <<wr, adm, store, Backends, Strategy, alive, CurrentConns, req, hc, made, picks>>

\* One iteration of the scan inside a direct caller's call.
CallScan(c) ==
  /\ SelStep(c)
  /\ UNCHANGED <<wr, adm, store, Backends, Current, Strategy, alive, CurrentConns, req, hc,
                 made, picks, run>>

\* The call returns to the direct caller, which records what it got.
CallReturn(c) ==
  /\ sel[c].pc = "ret"
  /\ picks' = IF sel[c].clean /\ Tracked
               THEN [picks EXCEPT ![sel[c].result] = picks[sel[c].result] + 1]
               ELSE picks
  /\ sel' = [sel EXCEPT ![c] = SelIdle]
  /\ UNCHANGED <<wr, adm, store, Backends, Current, Strategy, alive, CurrentConns, req, hc,
                 made, run>>

\* A direct caller calls GetBackends and keeps the slice.
SnapTake(c) ==
  /\ store.tracked
  /\ NoWriter
  /\ ~store.snaps[c].has
  /\ store' = [store EXCEPT !.snaps[c] =
                  GetBackendsCopy(store.cells, Len(Backends), Backends)]
  /\ UNCHANGED <<wr, adm, Backends, Current, Strategy, alive, CurrentConns, sel, req,
                 hc, made, picks, run>>

\* The caller is done with the slice.
SnapDrop(c) ==
  /\ store.snaps[c].has
  /\ store' = [store EXCEPT !.snaps[c] = NoSnap]
  /\ UNCHANGED <<wr, adm, Backends, Current, Strategy, alive, CurrentConns, sel, req,
                 hc, made, picks, run>>

\* ------------------------------------------------------- specifications
\* The pool as main() builds it: n configured backends, each with the
\* liveness its first probe gave, counters 0, cursor 0.
InitWith(maxN) ==
  /\ \E n \in 0..maxN :
       /\ Backends = [i \in 1..n |-> i]
       /\ made = 1..n
       /\ \E al \in [1..n -> BOOLEAN] :
            alive = [b \in BackendIds |-> IF b <= n THEN al[b] ELSE FALSE]
  /\ Current = 0
  /\ Strategy \in {"round-robin", "least-connections"}
  /\ CurrentConns = [b \in BackendIds |-> 0]
  /\ sel = [t \in Tasks |-> SelIdle]
  /\ req = [r \in Reqs |-> ReqIdle]
  /\ hc = HcIdle
  /\ picks = NoPicks
  /\ run = RunIdle
  /\ store = Untracked
  /\ adm = [t \in Admins |-> AdmIdle]
  /\ wr = WrIdle

Init == InitWith(MaxMembers)

InitPool == InitWith(MaxBackends)

\* The steps of the handler of request r.
Handler(r) ==
  \/ ReqStart(r)
  \/ ReqSelect(r)
  \/ ReqScan(r)
  \/ ReqPicked(r)
  \/ \E out \in {"resp", "err", "abort"} :
       \E status \in Statuses \cup {NoStatus} : ReqServe(r, out, status)
  \/ ReqDec(r)
  \/ ReqMark(r)

\* The running program: concurrent proxied requests and the admin API.
Next ==
  \/ \E r \in Reqs : Handler(r)
  \/ \E u \in URLs : AdminPost(u)
  \/ \E u \in URLs : AdminDelete(u)

Spec == Init /\ [][Next]_vars

\* One proxied request, with nothing else running.
NextSolo == Handler(1)

SpecSolo == InitPool /\ [][NextSolo]_vars

\* The pool driven through its interface by direct callers, as its tests do.
NextPool ==
  \/ \E c \in Callers : CallBegin(c)
  \/ \E c \in Callers : CallScan(c)
  \/ \E c \in Callers : CallReturn(c)
  \/ \E u \in URLs : \E a \in BOOLEAN : PoolAdd(u, a)
  \/ \E u \in URLs : PoolRemove(u)
  \/ \E u \in URLs : \E a \in BOOLEAN : PoolSetStatus(u, a)

SpecPool == InitPool /\ [][NextPool]_vars

\* The same with one direct caller: all selections are sequential.
NextPoolSeq ==
  \/ CallBegin(MaxReqs + 1)
  \/ CallScan(MaxReqs + 1)
  \/ CallReturn(MaxReqs + 1)
  \/ \E u \in URLs : \E a \in BOOLEAN : PoolAdd(u, a)
  \/ \E u \in URLs : PoolRemove(u)
  \/ \E u \in URLs : \E a \in BOOLEAN : PoolSetStatus(u, a)

SpecPoolSeq == InitPool /\ [][NextPoolSeq]_vars

\* Least-connections selection as a function of the pool: any members, any
\* liveness, any counters (left by requests in flight), then direct calls.
InitLC ==
  /\ \E n \in 0..MaxBackends :
       /\ Backends = [i \in 1..n |-> i]
       /\ made = 1..n
       /\ \E al \in [1..n -> BOOLEAN] :
            alive = [b \in BackendIds |-> IF b <= n THEN al[b] ELSE FALSE]
       /\ \E cc \in [1..n -> 0..MaxConns] :
            CurrentConns = [b \in BackendIds |-> IF b <= n THEN cc[b] ELSE 0]
  /\ Current = 0
  /\ Strategy = "least-connections"
  /\ sel = [t \in Tasks |-> SelIdle]
  /\ req = [r \in Reqs |-> ReqIdle]
  /\ hc = HcIdle
  /\ picks = NoPicks
  /\ run = RunIdle
  /\ store = Untracked
  /\ adm = [t \in Admins |-> AdmIdle]
  /\ wr = WrIdle

NextLC ==
  \/ \E c \in Callers : CallBegin(c)
  \/ \E c \in Callers : CallScan(c)
  \/ \E c \in Callers : CallReturn(c)

SpecLC == InitLC /\ [][NextLC]_vars

\* The steps of the health checker goroutine.
Checker ==
  \/ HcTick
  \/ \E status \in ProbeStatuses : HcProbe(status)
  \/ HcRead
  \/ HcSet

\* A proxied request served while the health checker and the admin API run.
NextHealth ==
  \/ Handler(1)
  \/ Checker
  \/ \E u \in URLs : AdminPost(u)
  \/ \E u \in URLs : AdminDelete(u)

SpecHealth == Init /\ [][NextHealth]_vars

\* One proxied request whose handler keeps being scheduled.  No step of the
\* handler waits for ever: rp.ServeHTTP runs under context.WithTimeout, so an
\* attempt on a backend that never answers ends as a failed RoundTrip.
SpecSoloFair == InitPool /\ [][NextSolo]_vars /\ WF_vars(NextSolo)

\* Concurrent proxied requests on a least-connections pool with idle
\* backends, and nothing else running.
InitDispatch == InitPool /\ Strategy = "least-connections"

NextDispatch == \E r \in Reqs : Handler(r)

SpecDispatch == InitDispatch /\ [][NextDispatch]_vars

\* One proxied request whose client may cancel or disconnect at any moment.
NextCancel == Handler(1) \/ ClientCancel(1)

SpecCancel == InitPool /\ [][NextCancel]_vars

\* The health checker and the admin API, with no proxied request: nothing
\* but the checker changes the liveness of a member.  The configured pool may
\* list an address twice (main adds every configured URL).
NextTick ==
  \/ Checker
  \/ \E u \in URLs : AdminPost(u)
  \/ \E u \in URLs : AdminDelete(u)

SpecTick == InitPool /\ [][NextTick]_vars

\* Direct callers taking snapshots while members are added and removed,
\* with the backing array of s.Backends followed.
InitSnap ==
  /\ \E n \in 0..MaxBackends :
       /\ Backends = [i \in 1..n |-> i]
       /\ made = 1..n
       /\ alive = [b \in BackendIds |-> b <= n]
       /\ store = [Untracked EXCEPT !.tracked = TRUE, !.cells = BuildCells(n)]
  /\ Current = 0
  /\ Strategy = "round-robin"
  /\ CurrentConns = [b \in BackendIds |-> 0]
  /\ sel = [t \in Tasks |-> SelIdle]
  /\ req = [r \in Reqs |-> ReqIdle]
  /\ hc = HcIdle
  /\ picks = NoPicks
  /\ run = RunIdle
  /\ adm = [t \in Admins |-> AdmIdle]
  /\ wr = WrIdle

NextSnap ==
  \/ \E c \in Callers : SnapTake(c)
  \/ \E c \in Callers : SnapDrop(c)
  \/ \E u \in URLs : PoolAdd(u, TRUE)
  \/ \E u \in URLs : PoolRemove(u)

SpecSnap == InitSnap /\ [][NextSnap]_vars

\* Direct callers selecting while liveness updates go through
\* SetBackendStatus, whose locked section is followed step by step.
NextStatus ==
  \/ \E c \in Callers : CallBegin(c)
  \/ \E c \in Callers : CallScan(c)
  \/ \E c \in Callers : CallReturn(c)
  \/ \E u \in URLs : \E a \in BOOLEAN : SetStatusCall(u, a)
  \/ SetStatusLock
  \/ SetStatusApply

SpecStatus == InitPool /\ [][NextStatus]_vars

\* The same with every goroutine that can run being run: a selection inside
\* its scan goes on, a Lock() that can return returns, a locked section goes
\* on to its end.
SpecStatusFair ==
  /\ SpecStatus
  /\ \A c \in Callers : WF_vars(CallScan(c))
  /\ WF_vars(SetStatusLock)
  /\ WF_vars(SetStatusApply)

\* The admin API alone, serving several requests at the same time (net/http
\* runs each request in a goroutine of its own), on a pool whose configured
\* addresses are distinct.
NextAdmin ==
  \/ \E t \in Admins : \E u \in URLs : AdminPostCheck(t, u)
  \/ \E t \in Admins : AdminPostAdd(t)
  \/ \E u \in URLs : AdminDelete(u)

SpecAdmin == Init /\ [][NextAdmin]_vars

\* ------------------------------------------------------------ properties
Members == Range(Backends)

SomeAlive == \E b \in Members : alive[b]

\* The backends request r has attempted so far.
Attempted(r) == {req[r].trail[i].b : i \in 1..Len(req[r].trail)}

\* Request r's handler has ended, by returning or by the panic of ServeHTTP.
Ended(r) == req[r].pc \in {"done", "aborted"}

\* The response of backend b as the caller would get it from b directly.
Relayed(b, status) ==
  [code |-> status, headerCalls |-> 1, body |-> <<[from |-> b, full |-> TRUE]>>]

\* C1. Failover: when an attempt on X fails at the connection level and a
\* later attempt on another backend Y gets a response, the caller receives
\* Y's response (status and body) and X is not alive when the request ends.
C1_Failover ==
  \A i, j \in 1..Len(req[1].trail) :
    LET x == req[1].trail[i]
        y == req[1].trail[j]
    IN  (req[1].pc = "done" /\ i < j /\ x.out = "err" /\ y.out = "resp")
          => req[1].w = Relayed(y.b, y.status) /\ ~alive[x.b]

\* C2. Exhaustion: when the handler returns without any attempt having
\* relayed a response, the status the caller sees is 503.
C2_Exhaustion ==
  (req[1].pc = "done" /\ \A i \in 1..Len(req[1].trail) : req[1].trail[i].out # "resp")
    => req[1].w.code = StatusServiceUnavailable

\* C3. Buffer-then-flush: an attempt that ends in a connection-level failure
\* writes nothing to the caller's response, and when the handler returns the
\* response has been written exactly once.
C3_BufferThenFlush ==
  /\ \A i \in 1..Len(req[1].trail) :
       req[1].trail[i].out = "err" => ~req[1].trail[i].wrote
  /\ req[1].pc = "done" => req[1].w.headerCalls = 1

\* C4. No capacity: a request that arrives when the pool is empty or no
\* member is alive never forwards, answers 503 (written once), and leaves
\* every counter and every liveness flag as it found them.
C4_NoCapacity ==
  (req[1].pc # "idle" /\ \A b \in Members : ~req[1].before.alive[b])
    => /\ req[1].pc \in {"loop", "selecting", "done"}
       /\ req[1].trail = <<>>
       /\ CurrentConns = req[1].before.conns
       /\ alive = req[1].before.alive
       /\ req[1].pc = "done" =>
            req[1].w = [code |-> StatusServiceUnavailable, headerCalls |-> 1,
                        body |-> <<[from |-> Nil, full |-> TRUE]>>]

C4_Witness ==
  /\ req[1].pc = "done"
  /\ Len(Backends) = 2
  /\ \A b \in Members : ~req[1].before.alive[b]
  /\ req[1].w.code = StatusServiceUnavailable

\* C5. Once a request run alone has ended, whatever its outcome, every
\* backend it attempted has the CurrentConns it had when the request began.
C5_CounterRestored ==
  Ended(1) => \A b \in Attempted(1) : CurrentConns[b] = req[1].before.conns[b]

\* The attempts in flight on backend b: the counter was incremented and the
\* handler is still to decrement it.
InFlight(b) == {r \in Reqs : req[r].pc \in {"serve", "dec"} /\ req[r].backend = b}

\* C6. In every reachable state every backend's CurrentConns is >= 0 and
\* equals the number of forwarding attempts in flight on that backend.
C6_CounterIsInFlight ==
  \A b \in BackendIds :
    CurrentConns[b] >= 0 /\ CurrentConns[b] = Cardinality(InFlight(b))

\* The selections of the recorded run that have returned to their caller.
RECURSIVE PicksOver(_)
PicksOver(S) ==
  IF S = {} THEN 0
  ELSE LET b == CHOOSE x \in S : TRUE IN picks[b] + PicksOver(S \ {b})

PicksTotal == PicksOver({Nil} \cup BackendIds)

\* A recorded run of K = m * N selections, all of which have returned.
RunComplete ==
  /\ Tracked
  /\ \A c \in Callers : sel[c].pc = "idle"
  /\ run.calls > 0
  /\ run.calls % Len(Backends) = 0
  /\ PicksTotal = run.calls

\* Every member was returned exactly m times in the run.
EvenShare == \A b \in Members : picks[b] = run.calls \div Len(Backends)

\* C7 as stated. Round-robin over N alive members, membership and liveness
\* unchanged: K = m * N selections made one after the other return every
\* member exactly m times, whatever the cursor was when the run began.
C7_SequentialFairness == (RunComplete /\ ~run.overlap) => EvenShare

\* C7 amended. The same, for the runs during which the cursor does not wrap
\* around from its largest value to 0.
C7_SequentialFairnessNoWrap ==
  (RunComplete /\ ~run.overlap /\ ~run.wrapped) => EvenShare

C7_Witness ==
  /\ RunComplete /\ ~run.overlap /\ ~run.wrapped
  /\ Len(Backends) = 3
  /\ run.calls = 6
  /\ Current = 7
  /\ \A b \in Members : picks[b] = 2

\* C8 as stated. The same distribution when the K selections are issued by
\* concurrent callers, in whatever order they interleave.
C8_ConcurrentFairness == (RunComplete /\ run.overlap) => EvenShare

\* C8 amended. The same, for the runs during which the cursor does not wrap
\* around from its largest value to 0.
C8_ConcurrentFairnessNoWrap ==
  (RunComplete /\ run.overlap /\ ~run.wrapped) => EvenShare

C8_Witness ==
  /\ RunComplete /\ run.overlap /\ ~run.wrapped
  /\ Len(Backends) = 3
  /\ run.calls = 6
  /\ \A b \in Members : picks[b] = 2

\* C9. A round-robin selection during which membership and liveness did not
\* change returns an alive member of the pool whenever the pool has one,
\* whatever the cursor and wherever the dead members are.
C9_RoundRobinSkipsDead ==
  \A c \in Callers :
    (Strategy = "round-robin" /\ sel[c].pc = "ret" /\ sel[c].clean /\ SomeAlive)
      => sel[c].result \in Members /\ alive[sel[c].result]

C9_Witness ==
  \E c \in Callers :
    /\ Strategy = "round-robin" /\ sel[c].pc = "ret" /\ sel[c].clean
    /\ Len(Backends) = 3
    /\ ~alive[Backends[1]] /\ ~alive[Backends[2]]
    /\ sel[c].result = Backends[3]
    /\ Current = 2

\* C10. Under either strategy a selection during which membership and
\* liveness did not change returns none exactly when the pool is empty or no
\* member is alive.
C10_NoneIffNoAlive ==
  \A t \in Tasks :
    (sel[t].pc = "ret" /\ sel[t].clean) => (sel[t].result = Nil <=> ~SomeAlive)

C10_Witness ==
  \E t \in Tasks :
    /\ Strategy = "least-connections" /\ sel[t].pc = "ret" /\ sel[t].clean
    /\ Len(Backends) = 2
    /\ ~SomeAlive
    /\ sel[t].result = Nil

\* The positions of the alive members.
AliveIdx == {i \in 1..Len(Backends) : alive[Backends[i]]}

\* The position of the earliest-inserted alive member among those with the
\* smallest CurrentConns.
LeastIdx ==
  CHOOSE i \in AliveIdx :
    \A j \in AliveIdx :
      \/ CurrentConns[Backends[i]] < CurrentConns[Backends[j]]
      \/ CurrentConns[Backends[i]] = CurrentConns[Backends[j]] /\ i <= j

\* C11. A least-connections selection returns the alive member with the
\* smallest CurrentConns, the earliest-inserted one on a tie, and never a
\* dead member, whatever the dead members' counters are.
C11_LeastConnections ==
  \A c \in Callers :
    (Strategy = "least-connections" /\ sel[c].pc = "ret" /\ sel[c].clean)
      => /\ sel[c].result # Nil => alive[sel[c].result]
         /\ SomeAlive => sel[c].result = Backends[LeastIdx]

C11_Witness ==
  \E c \in Callers :
    /\ Strategy = "least-connections" /\ sel[c].pc = "ret" /\ sel[c].clean
    /\ Len(Backends) = 3
    /\ ~alive[Backends[1]] /\ CurrentConns[Backends[1]] = 0
    /\ alive[Backends[2]] /\ CurrentConns[Backends[2]] = 1
    /\ alive[Backends[3]] /\ CurrentConns[Backends[3]] = 1
    /\ sel[c].result = Backends[2]

\* C12. A response received from a backend, whatever its status, ends the
\* request: it is the last attempt, the backend keeps the liveness it had,
\* and the caller gets that response, status and body, unchanged.
C12_AnyResponseEnds ==
  \A i \in 1..Len(req[1].trail) :
    LET y == req[1].trail[i]
    IN  y.out = "resp"
          => /\ i = Len(req[1].trail)
             /\ req[1].pc \in {"dec", "done"}
             /\ alive[y.b] = req[1].before.alive[y.b]
             /\ req[1].pc = "done" => req[1].w = Relayed(y.b, y.status)

\* C13. A request makes at most as many forwarding attempts as the pool had
\* members when it started, and never attempts the same backend twice, also
\* while the health checker runs.
C13_DistinctAttempts ==
  /\ Len(req[1].trail) <= req[1].maxAttempts
  /\ \A i, j \in 1..Len(req[1].trail) :
       i < j => req[1].trail[i].b # req[1].trail[j].b

\* Every attempt of request r so far ended in a connection-level failure
\* (refused, reset, or no answer within the proxy timeout).
AllFailed(r) ==
  \A i \in 1..Len(req[r].trail) : req[r].trail[i].out = "err"

\* C14. Every request ends with a response; a backend whose attempt got no
\* answer is marked not alive; and a request all of whose attempts failed
\* that way answers 503.
C14_Terminates ==
  /\ (req[1].pc # "idle") ~> (Ended(1) /\ req[1].w.code # 0)
  /\ [](\A i \in 1..Len(req[1].trail) :
          (req[1].trail[i].out = "err" /\ req[1].pc \in {"loop", "selecting", "done"})
            => ~alive[req[1].trail[i].b])
  /\ []((req[1].pc = "done" /\ AllFailed(1))
          => req[1].w.code = StatusServiceUnavailable)

\* The health checker finishes with the member at the head of its list.
HcDealt == hc.pc \in {"read", "set"} /\ hc' = HcAdvance(hc, alive')

\* C15. Health convergence, member by member of a tick: when the checker
\* has finished with a member that is still in the pool, and nothing but the
\* checker touches liveness, the member's alive flag equals the outcome of
\* its probe (alive on 200, not alive on anything else).
C15_HealthConvergence ==
  [][(HcDealt /\ Head(hc.todo) \in Range(Backends'))
       => alive'[Head(hc.todo)] = hc.newStatus]_vars

\* C16. A probe reports success exactly when it got a response with status
\* 200, and changes nothing but the checker's own result; the update that
\* follows a failed probe sets at most that member's liveness to false,
\* changes nothing else, and leaves the checker going on with its loop.
C16_ProbeOutcome ==
  [][/\ \A status \in ProbeStatuses :
          HcProbe(status) =>
            /\ hc'.newStatus = (status = StatusOK)
            /\ hc'.pc = "read"
            /\ UNCHANGED <<Backends, Current, alive, CurrentConns, req, made>>
     /\ (hc.pc \in {"read", "set"} /\ ~hc.newStatus /\ hc' # hc) =>
          /\ hc'.pc \in {"wait", "probe", "set"}
          /\ \A b \in BackendIds : alive'[b] # alive[b] => alive[b] /\ ~alive'[b]
          /\ Cardinality({b \in BackendIds : alive'[b] # alive[b]}) <= 1
          /\ UNCHANGED <<Backends, Current, CurrentConns, req, made>>]_vars

C16_Witness ==
  /\ hc.pc = "set"
  /\ ~hc.newStatus
  /\ Head(hc.todo) \in Members
  /\ alive[Head(hc.todo)]

\* C17. The member list changes only in a step of add or remove: no step of
\* a proxied request (selection, snapshot, marking a backend not alive) and
\* no step of the health checker (snapshot, probe, setStatus) changes it.
C17_MembershipFrame ==
  [][Backends' # Backends =>
       /\ \/ \E u \in URLs : AdminPost(u)
          \/ \E u \in URLs : AdminDelete(u)
       /\ ~Handler(1)
       /\ ~Checker]_vars

C17_Witness ==
  /\ req[1].pc = "done"
  /\ Len(Backends) = 2
  /\ \E i \in 1..Len(req[1].trail) :
       /\ req[1].trail[i].out = "err"
       /\ req[1].trail[i].b \in Members
       /\ ~alive[req[1].trail[i].b]
  /\ hc.pc = "set"

\* Some member of the pool has address u.
HasAddress(u) == \E i \in 1..Len(Backends) : URLOf(Backends[i]) = u

\* C18. RemoveBackend(u) on a pool with a member of address u returns true
\* and removes the first such member and nothing else: the members before
\* and after it stay, in their order, and no liveness flag and no counter
\* changes.
C18_RemoveFirstMatch ==
  [][\A u \in URLs :
       (PoolRemove(u) /\ HasAddress(u)) =>
         /\ RemoveBackendResult(Backends, u)
         /\ \E k \in 1..Len(Backends) :
              /\ URLOf(Backends[k]) = u
              /\ \A j \in 1..(k - 1) : URLOf(Backends[j]) # u
              /\ Backends' = SubSeq(Backends, 1, k - 1)
                               \o SubSeq(Backends, k + 1, Len(Backends))
         /\ UNCHANGED <<alive, CurrentConns, Current>>]_vars

C18_Witness ==
  /\ Backends = <<2, 3>>
  /\ made = {1, 2, 3}
  /\ URLOf(1) = URLOf(3)

\* A removal of an address no member has changes nothing and returns false.
RemoveAbsent ==
  \A u \in URLs :
    ~HasAddress(u) =>
      RemoveBackend(Backends, u) = Backends /\ ~RemoveBackendResult(Backends, u)

\* C19 as stated. RemoveBackend(u) with no member of address u returns false
\* and leaves the pool unchanged; and right after a removal of u that
\* returned true, a second removal of u returns false.
C19_RemoveAbsent ==
  /\ []RemoveAbsent
  /\ [][\A u \in URLs :
          (PoolRemove(u) /\ HasAddress(u)) => ~RemoveBackendResult(Backends', u)]_vars

\* C19 amended. The same, the second removal returning false when the
\* member removed was the only one with that address.
C19_RemoveAbsentUnique ==
  /\ []RemoveAbsent
  /\ [][\A u \in URLs :
          (/\ PoolRemove(u)
           /\ Cardinality({i \in 1..Len(Backends) : URLOf(Backends[i]) = u}) = 1)
            => ~RemoveBackendResult(Backends', u)]_vars

C19_Witness ==
  /\ Len(Backends) = 2
  /\ \E b \in made \ Members : ~HasAddress(URLOf(b))

\* C20. The slice GetBackends returned holds the members the pool had at
\* the moment of the call, in insertion order, and keeps holding exactly
\* them whatever is added or removed afterwards.
C20_SnapshotStable ==
  \A c \in Callers :
    store.snaps[c].has => SnapView(store, c) = store.snaps[c].orig

C20_Witness ==
  \E c \in Callers :
    /\ store.snaps[c].has
    /\ store.snaps[c].orig = <<1, 2, 3>>
    /\ SnapView(store, c) = <<1, 2, 3>>
    /\ Backends = <<2, 3>>

\* C21. AddBackend puts the new backend after the members the pool had,
\* which stay as they were and in their order, and the array a later
\* GetBackends copies, like the list a later selection scans, ends with it.
C21_AddAppends ==
  [][\A u \in URLs : \A a \in BOOLEAN :
       PoolAdd(u, a) =>
         \E b \in BackendIds \ made :
           /\ URLOf(b) = u
           /\ Backends' = Append(Backends, b)
           /\ SubSeq(store'.cells, 1, Len(Backends')) = Backends'
           /\ alive'[b] = a]_vars

C21_Witness ==
  /\ Backends = <<2, 3>>
  /\ store.cells = <<2, 3>>
  /\ \E c \in Callers : store.snaps[c].has /\ SnapView(store, c) = <<2, 3>>

\* SetBackendStatus for an address no member has changes no liveness flag.
SetStatusAbsent ==
  \A u \in URLs : \A a \in BOOLEAN :
    ~HasAddress(u) => SetBackendStatus(alive, Backends, u, a) = alive

\* C22. SetBackendStatus(u, a) gives the (first) member of address u the
\* liveness a and changes no other backend's liveness, no counter, not the
\* cursor and not the member list; with no member of address u it changes
\* nothing.
C22_SetStatusFrame ==
  /\ []SetStatusAbsent
  /\ [][\A u \in URLs : \A a \in BOOLEAN :
          PoolSetStatus(u, a) =>
            /\ HasAddress(u)
            /\ alive' = [alive EXCEPT ![Backends[FirstIndexOf(Backends, u)]] = a]
            /\ \A b \in BackendIds :
                 alive'[b] # alive[b] => b \in Members /\ URLOf(b) = u /\ alive'[b] = a
            /\ Cardinality({b \in BackendIds : alive'[b] # alive[b]}) = 1
            /\ UNCHANGED <<Backends, CurrentConns, Current, made>>]_vars

C22_Witness ==
  /\ Backends = <<1, 2, 3>>
  /\ URLOf(1) = URLOf(3)
  /\ alive[1] /\ ~alive[3]
  /\ \E c \in Callers : sel[c].pc = "ret" /\ ~sel[c].clean

\* The attempt of request r that was in flight when the client cancelled is
\* over: ServeHTTP has ended and the statement after it has had its turn.
CutOver(r) ==
  /\ req[r].cutAt # 0
  /\ Len(req[r].trail) >= req[r].cutAt
  /\ ~(req[r].pc = "dec" /\ Len(req[r].trail) = req[r].cutAt)

\* C23. When the client cancels while an attempt is in flight, that attempt
\* ends without a relayed backend response, and once it is over the backend's
\* CurrentConns is what it was before the attempt (the request runs alone, so
\* that is the value at the start of the request, unless a later attempt on
\* the same backend is in flight).
C23_CancelAborts ==
  /\ \A k \in 1..Len(req[1].trail) :
        k = req[1].cutAt => req[1].trail[k].out # "resp"
  /\ CutOver(1) =>
        LET b == req[1].trail[req[1].cutAt].b
        IN  InFlight(b) = {} => CurrentConns[b] = req[1].before.conns[b]

\* The scan of task t is within the member list it is reading.
ScanInRange(t) ==
  IF Strategy = "least-connections"
    THEN sel[t].i \in 1..Len(Backends)
    ELSE sel[t].start < Len(Backends) /\ sel[t].i < Len(Backends)

\* C24. The member list changes only while no scan is in progress, and every
\* scan in progress has its start and index within the current member list
\* (snapshots and setStatus hold the lock for a single step, so they are
\* never in progress when another step runs).
C24_NoOverlap ==
  /\ [](\A t \in Readers : ScanInRange(t))
  /\ [][Backends' # Backends => Readers = {} /\ Readers' = {}]_vars

C24_Witness ==
  /\ Strategy = "least-connections"
  /\ Len(Backends) >= 2
  /\ made # Range(Backends)
  /\ \E t \in Readers : sel[t].i = Len(Backends)
  /\ \E t \in Readers : sel[t].i = 1

\* The last attempt request r has made.
LastAttempt(r) == req[r].trail[Len(req[r].trail)]

\* C25. With requests running concurrently, for every request: when the
\* handler comes to test the failure flag of its attempt, the flag is set
\* exactly when that attempt's own RoundTrip failed; it marks a backend dead
\* only after its own failure; it retried only after its own failures; and
\* when it has ended, a failed last attempt was treated as a failure (counted
\* and followed by the 503 call), a relayed one as the return on success.
C25_OwnFailureOnly ==
  \A r \in Reqs :
    /\ req[r].pc = "dec" => (req[TwOf(r)].failed <=> LastAttempt(r).out = "err")
    /\ req[r].pc = "mark" => LastAttempt(r).out = "err"
    /\ \A k \in 1..(Len(req[r].trail) - 1) : req[r].trail[k].out = "err"
    /\ (req[r].pc = "done" /\ req[r].trail # <<>>) =>
          IF LastAttempt(r).out = "err"
            THEN req[r].attempt = Len(req[r].trail)
            ELSE req[r].attempt = Len(req[r].trail) - 1

C25_Witness ==
  /\ req[1].pc = "dec" /\ req[2].pc = "dec"
  /\ req[1].backend = req[2].backend
  /\ CurrentConns[req[1].backend] = 2
  /\ LastAttempt(1).out = "err" /\ req[1].failed
  /\ LastAttempt(2).out = "resp" /\ ~req[2].failed

\* The requests whose first attempt is in flight on backend b.
Dispatched(b) ==
  {r \in Reqs : req[r].pc = "serve" /\ req[r].trail = <<>> /\ req[r].backend = b}

\* C26. On a least-connections pool of N members, all alive and idle, when
\* the K requests have all been dispatched and none has completed, each
\* member has received K/N of them within +/-1 (N * received is within N of K).
C26_ConcurrentBalance ==
  LET N == Len(Backends)
      K == Cardinality(Reqs)
  IN  ( /\ N > 0
        /\ \A r \in Reqs : \A b \in Members :
             req[r].before.alive[b] /\ req[r].before.conns[b] = 0
        /\ \A r \in Reqs : \E b \in Members : r \in Dispatched(b) )
      => \A b \in Members :
           /\ N * Cardinality(Dispatched(b)) <= K + N
           /\ N * Cardinality(Dispatched(b)) >= K - N

\* No two members of the pool have the same address.
UniqueAddresses ==
  \A i, j \in 1..Len(Backends) :
    URLOf(Backends[i]) = URLOf(Backends[j]) => i = j

\* C27. With admin POST and DELETE requests interleaved in any way on a pool
\* that started with distinct addresses, no two members ever have the same
\* address, and no POST adds a member whose address is already present.
C27_AdminUnique ==
  /\ []UniqueAddresses
  /\ [][\A t \in Admins : AdminPostAdd(t) => ~HasAddress(adm[t].url)]_vars

\* C28. In every health-check tick the checker goes on to call
\* SetBackendStatus for a member exactly when the probe result differs from
\* the liveness the member had before its probe was issued.
C28_CompareWithPrevious ==
  [][HcRead => (hc'.pc = "set" <=> hc.newStatus # hc.known)]_vars

\* C29. Round-robin selections made one at a time: the scan of a call starts
\* at (the cursor as the call's increment left it) mod N, and on a pool
\* [A, B] with both alive and the cursor at 0 the first selection returns B.
C29_StartAfterIncrement ==
  \A c \in Callers :
    /\ (Strategy = "round-robin" /\ sel[c].pc = "scan")
          => sel[c].start = Current % Len(Backends)
    /\ ( /\ Strategy = "round-robin" /\ sel[c].pc = "ret" /\ sel[c].clean
          /\ Len(Backends) = 2 /\ alive[Backends[1]] /\ alive[Backends[2]]
          /\ Current = 1 /\ run.calls = 1 /\ ~run.wrapped )
          => sel[c].result = Backends[2]

\* C30. A handler waiting for rp.ServeHTTP is not inside GetNextValidPeer
\* (the only place where a task keeps s.mux from one step to the next), and
\* while the health checker waits for a probe or a handler for its upstream
\* request, a writer of the pool can take s.mux unless some other task is
\* scanning.  Backend.mux is taken and released inside IsAlive and SetAlive,
\* which are parts of single steps.
C30_NoIOUnderLock ==
  /\ \A r \in Reqs : req[r].pc = "serve" => r \notin Readers /\ sel[r] = SelIdle
  /\ ( /\ hc.pc = "probe" \/ \E r \in Reqs : req[r].pc = "serve"
       /\ \A t \in Tasks : sel[t].pc # "scan" )
       => \A u \in URLs : ENABLED AdminDelete(u)

C30_Witness ==
  /\ hc.pc = "probe"
  /\ req[1].pc = "serve"
  /\ Head(hc.todo) = req[1].backend
  /\ Len(Backends) = 2

\* C31. While a SetBackendStatus call is taking the lock or inside its locked section, a task
\* that is not selecting can enter the read section of GetNextValidPeer.
C31_StatusDoesNotBlock ==
  wr.pc \in {"wait", "held"} =>
    \A c \in Callers : sel[c].pc = "idle" => ENABLED SelBegin(c)

C33_CancelKeepsLiveness ==
  \A k \in 1..Len(req[1].trail) :
    LET y == req[1].trail[k]
    IN  (y.cut /\ y.out = "err")
          => /\ k = Len(req[1].trail)
             /\ req[1].pc \in {"dec", "done"}
             /\ alive[y.b] = req[1].before.alive[y.b]

====
